---- MODULE Spec2Model ----
(***************************************************************************)
(* Model of the kakao-developers-client builders:                          *)
(*   - daum.BookSearchIterator  (src/translation/detect_test.go, 60-229)   *)
(*   - vision.FaceDetectInitializer (src/vision/face_detect.go)            *)
(* Each builder is a record of its fields; each method is an operator from *)
(* the receiver (and the arguments, and the environment's answer) to the   *)
(* new receiver and what the call returned; each action is one call.       *)
(***************************************************************************)
EXTENDS Integers, Sequences, FiniteSets, TLC

VARIABLES
    bi,     \* the BookSearchIterator (its seven fields)
    ret,    \* the last call on bi: op, arg, and its panic, err, res, reqs
    fi,     \* the FaceDetectInitializer (its five fields)
    fret,   \* what the last call on fi did
    loop,   \* a caller's "call Next until ErrEndPage" loop over bi
    ord     \* a caller applying two setter calls in both orders

vars == <<bi, ret, fi, fret, loop, ord>>

----------------------------------------------------------------------------
(* Bounds of the model *)

\* Result and Display are tried with arguments up to ArgSlack outside [1,50].
ArgSlack == 1

\* Failed requests the transport may answer during one caller loop.
MaxFails == 2

----------------------------------------------------------------------------
(* Inputs *)

\* Search texts, as sequences of characters.
Queries == { <<" ", "a", " ", "b", " ">>, <<"a", "&">> }

\* Keys handed to AuthorizeWith.
Keys == { "k1" }

SortArgs == { "accuracy", "latest", "oldest" }

TargetArgs == { "title", "", "author" }

PageArgs == (1 - ArgSlack) .. (50 + ArgSlack)

SizeArgs == ((1 - ArgSlack) .. 1) \cup (50 .. (50 + ArgSlack))

\* What the network answers to one request: the transport fails, or a body
\* arrives that does not decode (having set is_end or not before the decoder
\* gave up), or a body arrives that decodes.
Responses == [kind : {"transport", "malformed", "ok"}, is_end : BOOLEAN]

----------------------------------------------------------------------------
(* internal/common *)

KeyPrefix == "KakaoAK "

FormatKey(key) == KeyPrefix \o key

----------------------------------------------------------------------------
(* strings.TrimSpace and url.QueryEscape on character sequences *)

RECURSIVE TrimLeft(_)
TrimLeft(s) ==
    IF s # <<>> /\ Head(s) = " " THEN TrimLeft(Tail(s)) ELSE s

RECURSIVE TrimRight(_)
TrimRight(s) ==
    IF s # <<>> /\ s[Len(s)] = " " THEN TrimRight(SubSeq(s, 1, Len(s) - 1)) ELSE s

TrimSpace(s) == TrimRight(TrimLeft(s))

EscapeChar(c) ==
    CASE c = " " -> <<"+">>
      [] c = "&" -> <<"%", "2", "6">>
      [] OTHER   -> <<c>>

RECURSIVE QueryEscape(_)
QueryEscape(s) ==
    IF s = <<>> THEN <<>> ELSE EscapeChar(Head(s)) \o QueryEscape(Tail(s))

----------------------------------------------------------------------------
(* BookSearchIterator *)

ErrEndPage == "ErrEndPage"

\* The zero value of BookSearchResult, as far as the iterator reads it.
ZeroResult == [IsEnd |-> FALSE]

BookSearch(query) ==
    [ Query   |-> QueryEscape(TrimSpace(query)),
      AuthKey |-> KeyPrefix,
      Sort    |-> "accuracy",
      Page    |-> 1,
      Size    |-> 10,
      Target  |-> "",
      end     |-> FALSE ]

\* A setter returns the receiver, or panics. The recover() that follows the
\* test in SortBy, Result, Display and Filter is not called from a deferred
\* function, so it returns nil and changes nothing.
Returns(b) == [bi |-> b, panic |-> "none"]
Panics(b, e) == [bi |-> b, panic |-> e]

AuthorizeWith(b, key) == Returns([b EXCEPT !.AuthKey = FormatKey(key)])

SortBy(b, order) ==
    IF order \in {"accuracy", "latest"}
    THEN Returns([b EXCEPT !.Sort = order])
    ELSE Panics(b, "ErrUnsupportedSortingOrder")

\* A faulty variant: the lower bound off by one.
PageInBoundFromZero(page) == 0 <= page /\ page <= 50

PageInBound(page) == 1 <= page /\ page <= 50

\* A faulty variant: a Result call that also rewinds an exhausted iterator.
ResultRewinds(b, page) ==
    IF PageInBound(page)
    THEN Returns([b EXCEPT !.Page = page, !.end = FALSE])
    ELSE Panics(b, "ErrPageOutOfBound")

Result(b, page) ==
    IF PageInBound(page)
    THEN Returns([b EXCEPT !.Page = page])
    ELSE Panics(b, "ErrPageOutOfBound")

\* A faulty variant: the upper bound off by one.
SizeInBoundTo51(size) == 1 <= size /\ size <= 51

SizeInBound(size) == 1 <= size /\ size <= 50

\* A faulty variant: Display writing the page field (a copied line of Result).
DisplayWritesPage(b, size) ==
    IF SizeInBound(size)
    THEN Returns([b EXCEPT !.Page = size])
    ELSE Panics(b, "ErrSizeOutOfBound")

Display(b, size) ==
    IF SizeInBound(size)
    THEN Returns([b EXCEPT !.Size = size])
    ELSE Panics(b, "ErrSizeOutOfBound")

Filter(b, target) ==
    IF target \in {"title", "isbn", "publisher", "person", ""}
    THEN Returns([b EXCEPT !.Target = target])
    ELSE Panics(b, "target must be one of the following options")

\* A faulty variant: the page parameter sent zero-based.
BookRequestZeroBased(b) ==
    [ method |-> "GET",
      query  |-> b.Query,
      sort   |-> b.Sort,
      page   |-> b.Page - 1,
      size   |-> b.Size,
      target |-> b.Target,
      auth   |-> b.AuthKey ]

\* The GET request Next builds: the URL's parameters and the header.
BookRequest(b) ==
    [ method |-> "GET",
      query  |-> b.Query,
      sort   |-> b.Sort,
      page   |-> b.Page,
      size   |-> b.Size,
      target |-> b.Target,
      auth   |-> b.AuthKey ]

\* bi.Page++
NextPage(page) == page + 1

\* A faulty variant: the page bound off by one.
EndAfterAt50(is_end, page) == is_end \/ 50 <= page

\* A faulty variant: the page bound one too high.
EndAfterAt52(is_end, page) == is_end \/ 51 < page

\* bi.end = res.Meta.IsEnd || 50 < bi.Page
EndAfter(is_end, page) == is_end \/ 50 < page

\* The cursor after a decoded response.
Advance(b, is_end) ==
    LET page == NextPage(b.Page)
    IN  [b EXCEPT !.Page = page, !.end = EndAfter(is_end, page)]

\* A faulty variant: the terminal flag tested after the request was sent.
NextChecksEndLate(b, resp) ==
    IF b.end
    THEN [bi |-> b, res |-> ZeroResult, err |-> ErrEndPage,
          reqs |-> <<BookRequest(b)>>]
    ELSE LET req == BookRequest(b) IN
         CASE resp.kind = "transport" ->
                [bi |-> b, res |-> ZeroResult, err |-> "transport", reqs |-> <<req>>]
           [] resp.kind = "malformed" ->
                [bi |-> b, res |-> [IsEnd |-> resp.is_end], err |-> "decode",
                 reqs |-> <<req>>]
           [] OTHER ->
                [bi |-> Advance(b, resp.is_end), res |-> [IsEnd |-> resp.is_end],
                 err |-> "nil", reqs |-> <<req>>]

\* A faulty variant: the cursor advanced before the body is decoded.
NextAdvancesBeforeDecode(b, resp) ==
    IF b.end
    THEN [bi |-> b, res |-> ZeroResult, err |-> ErrEndPage, reqs |-> <<>>]
    ELSE LET req == BookRequest(b) IN
         CASE resp.kind = "transport" ->
                [bi |-> b, res |-> ZeroResult, err |-> "transport", reqs |-> <<req>>]
           [] resp.kind = "malformed" ->
                [bi |-> Advance(b, resp.is_end), res |-> [IsEnd |-> resp.is_end],
                 err |-> "decode", reqs |-> <<req>>]
           [] OTHER ->
                [bi |-> Advance(b, resp.is_end), res |-> [IsEnd |-> resp.is_end],
                 err |-> "nil", reqs |-> <<req>>]

\* One call of Next, the network answering resp to the request it sends (if
\* it sends one).
Next(b, resp) ==
    IF b.end
    THEN [bi |-> b, res |-> ZeroResult, err |-> ErrEndPage, reqs |-> <<>>]
    ELSE LET req == BookRequest(b) IN
         CASE resp.kind = "transport" ->
                [bi |-> b, res |-> ZeroResult, err |-> "transport", reqs |-> <<req>>]
           [] resp.kind = "malformed" ->
                [bi |-> b, res |-> [IsEnd |-> resp.is_end], err |-> "decode",
                 reqs |-> <<req>>]
           [] OTHER ->
                [bi |-> Advance(b, resp.is_end), res |-> [IsEnd |-> resp.is_end],
                 err |-> "nil", reqs |-> <<req>>]

----------------------------------------------------------------------------
(* Calls on the iterator *)

\* What a setter call leaves in ret.
SetterRet(op, arg, r) ==
    [op |-> op, arg |-> arg, panic |-> r.panic, err |-> "nil", res |-> ZeroResult,
     reqs |-> <<>>]

Others == <<fi, fret, loop, ord>>

AuthorizeWithCall(key) ==
    LET r == AuthorizeWith(bi, key)
    IN  bi' = r.bi /\ ret' = SetterRet("AuthorizeWith", key, r) /\ UNCHANGED Others

SortByCall(order) ==
    LET r == SortBy(bi, order)
    IN  bi' = r.bi /\ ret' = SetterRet("SortBy", order, r) /\ UNCHANGED Others

ResultCall(page) ==
    LET r == Result(bi, page)
    IN  bi' = r.bi /\ ret' = SetterRet("Result", page, r) /\ UNCHANGED Others

DisplayCall(size) ==
    LET r == Display(bi, size)
    IN  bi' = r.bi /\ ret' = SetterRet("Display", size, r) /\ UNCHANGED Others

FilterCall(target) ==
    LET r == Filter(bi, target)
    IN  bi' = r.bi /\ ret' = SetterRet("Filter", target, r) /\ UNCHANGED Others

\* Next on bi, its outcome left in ret.
NextOn(resp) ==
    LET r == Next(bi, resp)
    IN  /\ bi' = r.bi
        /\ ret' = [op |-> "Next", arg |-> "", panic |-> "none", err |-> r.err,
                   res |-> r.res, reqs |-> r.reqs]

NextCall(resp) == NextOn(resp) /\ UNCHANGED Others

CallAuthorizeWith == \E key \in Keys : AuthorizeWithCall(key)
CallSortBy == \E order \in SortArgs : SortByCall(order)
CallResult == \E page \in PageArgs : ResultCall(page)
CallDisplay == \E size \in SizeArgs : DisplayCall(size)
CallFilter == \E target \in TargetArgs : FilterCall(target)
CallNext == \E resp \in Responses : NextCall(resp)

----------------------------------------------------------------------------
(* FaceDetectInitializer *)

\* Thresholds in hundredths: 0.7 is 70, the legal range [0.1, 1.0] is 10..100.
ThresholdArgs == { 9, 10, 100, 101 }

ImageURLs == { "u1" }

Filenames == { "f1" }

\* What os.Open, file.Stat and io.Copy find under fi.Filename.
Files ==
    [ exists : BOOLEAN, statOk : BOOLEAN, readOk : BOOLEAN,
      size : { 2 * 1024 * 1024 - 1, 2 * 1024 * 1024, 2 * 1024 * 1024 + 1 } ]

FaceResponses == { "transport", "malformed", "ok" }

FaceDetect ==
    [ AuthKey   |-> KeyPrefix,
      ImageURL  |-> "",
      Filename  |-> "",
      Threshold |-> 70,
      withFile  |-> FALSE ]

FReturns(f) == [fi |-> f, panic |-> "none"]
FPanics(f, e) == [fi |-> f, panic |-> e]

WithURL(f, url) == FReturns([f EXCEPT !.ImageURL = url, !.withFile = FALSE])

WithFile(f, filename) == FReturns([f EXCEPT !.Filename = filename, !.withFile = TRUE])

FaceAuthorizeWith(f, key) == FReturns([f EXCEPT !.AuthKey = FormatKey(key)])

ThresholdAt(f, val) ==
    IF 10 <= val /\ val <= 100
    THEN FReturns([f EXCEPT !.Threshold = val])
    ELSE FPanics(f, "threshold must be between 0.1 and 1.0")

\* The POST request Collect builds: a multipart body in file mode, query
\* parameters otherwise.
FaceRequest(f) ==
    IF f.withFile
    THEN [ method |-> "POST", body |-> "multipart", threshold |-> f.Threshold,
           image |-> f.Filename, image_url |-> "", auth |-> f.AuthKey ]
    ELSE [ method |-> "POST", body |-> "none", threshold |-> f.Threshold,
           image |-> "", image_url |-> f.ImageURL, auth |-> f.AuthKey ]

\* What Collect returns: res, err, the requests it sent, or a panic.
Collected(res, err, reqs) == [res |-> res, err |-> err, reqs |-> reqs, panic |-> "none"]

\* client.Do and the decode of the body.
Transfer(f, resp) ==
    CASE resp = "transport" -> Collected("zero", "transport", <<FaceRequest(f)>>)
      [] resp = "malformed" -> Collected("partial", "decode", <<FaceRequest(f)>>)
      [] OTHER              -> Collected("decoded", "nil", <<FaceRequest(f)>>)

\* One call of Collect, file being what the file system holds under
\* f.Filename and resp what the network answers. In file mode the size test
\* returns the err of os.Open, which is nil once the file is open; the err
\* of file.Stat is dropped, so a failed Stat leaves stat nil and stat.Size()
\* panics. Lines 138-141 hold an unresolved merge conflict; the HEAD side,
\* which declares req, is the one read here.
Collect(f, file, resp) ==
    IF f.withFile
    THEN CASE ~file.exists -> Collected("zero", "open", <<>>)
           [] file.exists /\ ~file.statOk ->
                [res |-> "zero", err |-> "nil", reqs |-> <<>>,
                 panic |-> "nil pointer dereference"]
           [] file.exists /\ file.statOk /\ 2 * 1024 * 1024 < file.size ->
                Collected("zero", "nil", <<>>)
           [] file.exists /\ file.statOk /\ ~(2 * 1024 * 1024 < file.size)
              /\ ~file.readOk ->
                Collected("zero", "copy", <<>>)
           [] OTHER -> Transfer(f, resp)
    ELSE Transfer(f, resp)

(* Calls on the initializer *)

FSetterRet(op, arg, r) ==
    [ op |-> op, arg |-> arg, panic |-> r.panic, err |-> "nil", res |-> "zero",
      reqs |-> <<>>, withFile |-> FALSE, file |-> "none" ]

FOthers == <<bi, ret, loop, ord>>

WithURLCall(url) ==
    LET r == WithURL(fi, url)
    IN  fi' = r.fi /\ fret' = FSetterRet("WithURL", url, r) /\ UNCHANGED FOthers

WithFileCall(filename) ==
    LET r == WithFile(fi, filename)
    IN  fi' = r.fi /\ fret' = FSetterRet("WithFile", filename, r) /\ UNCHANGED FOthers

FaceAuthorizeWithCall(key) ==
    LET r == FaceAuthorizeWith(fi, key)
    IN  fi' = r.fi /\ fret' = FSetterRet("AuthorizeWith", key, r) /\ UNCHANGED FOthers

ThresholdAtCall(val) ==
    LET r == ThresholdAt(fi, val)
    IN  fi' = r.fi /\ fret' = FSetterRet("ThresholdAt", val, r) /\ UNCHANGED FOthers

CollectCall(file, resp) ==
    LET r == Collect(fi, file, resp)
    IN  /\ fi' = fi
        /\ fret' = [ op |-> "Collect", arg |-> "", panic |-> r.panic, err |-> r.err,
                     res |-> r.res, reqs |-> r.reqs, withFile |-> fi.withFile,
                     file |-> IF fi.withFile THEN file ELSE "none" ]
        /\ UNCHANGED FOthers

CallWithURL == \E url \in ImageURLs : WithURLCall(url)
CallWithFile == \E filename \in Filenames : WithFileCall(filename)
CallFaceAuthorizeWith == \E key \in Keys : FaceAuthorizeWithCall(key)
CallThresholdAt == \E val \in ThresholdArgs : ThresholdAtCall(val)
CallCollect == \E file \in Files, resp \in FaceResponses : CollectCall(file, resp)

FaceInit ==
    /\ fi = FaceDetect
    /\ fret = [ op |-> "FaceDetect", arg |-> "", panic |-> "none", err |-> "nil",
                res |-> "zero", reqs |-> <<>>, withFile |-> FALSE, file |-> "none" ]

LoopIdle == loop = [phase |-> "idle", p |-> 0, succ |-> 0, nreq |-> 0, fails |-> 0]

NoCall == [op |-> "none", arg |-> ""]

OrdIdle ==
    ord = [phase |-> "idle", who |-> "none", first |-> NoCall, second |-> NoCall,
           ab |-> "none", ba |-> "none"]

----------------------------------------------------------------------------
(* The iterator under any sequence of setter calls and Next calls *)

BookInit ==
    /\ \E query \in Queries : bi = BookSearch(query)
    /\ ret = [op |-> "BookSearch", arg |-> "", panic |-> "none", err |-> "nil",
              res |-> ZeroResult, reqs |-> <<>>]

Init == BookInit /\ FaceInit /\ LoopIdle /\ OrdIdle

NextStep ==
    \/ CallAuthorizeWith
    \/ CallSortBy
    \/ CallResult
    \/ CallDisplay
    \/ CallFilter
    \/ CallNext

Spec == Init /\ [][NextStep]_vars

----------------------------------------------------------------------------
(* The initializer under any sequence of setter calls and Collect calls *)

FaceNextStep ==
    \/ CallWithURL
    \/ CallWithFile
    \/ CallFaceAuthorizeWith
    \/ CallThresholdAt
    \/ CallCollect

SpecFace == Init /\ [][FaceNextStep]_vars

----------------------------------------------------------------------------
(* A caller configuring one builder, then trying two setter calls with     *)
(* valid arguments in both orders                                          *)

\* Setter calls with valid arguments, as [op, arg].
BookCalls ==
    [op : {"AuthorizeWith"}, arg : Keys]
    \cup [op : {"SortBy"}, arg : {"accuracy", "latest"}]
    \cup [op : {"Result"}, arg : {1, 2, 50}]
    \cup [op : {"Display"}, arg : {1, 50}]
    \cup [op : {"Filter"}, arg : {"title", ""}]

FaceCalls ==
    [op : {"WithURL"}, arg : ImageURLs]
    \cup [op : {"WithFile"}, arg : Filenames]
    \cup [op : {"AuthorizeWith"}, arg : Keys]
    \cup [op : {"ThresholdAt"}, arg : {10, 100}]

\* The builder after the chained call b.op(arg).
ApplyBook(b, c) ==
    CASE c.op = "AuthorizeWith" -> AuthorizeWith(b, c.arg).bi
      [] c.op = "SortBy"        -> SortBy(b, c.arg).bi
      [] c.op = "Result"        -> Result(b, c.arg).bi
      [] c.op = "Display"       -> Display(b, c.arg).bi
      [] c.op = "Filter"        -> Filter(b, c.arg).bi

ApplyFace(f, c) ==
    CASE c.op = "WithURL"       -> WithURL(f, c.arg).fi
      [] c.op = "WithFile"      -> WithFile(f, c.arg).fi
      [] c.op = "AuthorizeWith" -> FaceAuthorizeWith(f, c.arg).fi
      [] c.op = "ThresholdAt"   -> ThresholdAt(f, c.arg).fi

BookCall(c) ==
    CASE c.op = "AuthorizeWith" -> AuthorizeWithCall(c.arg)
      [] c.op = "SortBy"        -> SortByCall(c.arg)
      [] c.op = "Result"        -> ResultCall(c.arg)
      [] c.op = "Display"       -> DisplayCall(c.arg)
      [] c.op = "Filter"        -> FilterCall(c.arg)

FaceCall(c) ==
    CASE c.op = "WithURL"       -> WithURLCall(c.arg)
      [] c.op = "WithFile"      -> WithFileCall(c.arg)
      [] c.op = "AuthorizeWith" -> FaceAuthorizeWithCall(c.arg)
      [] c.op = "ThresholdAt"   -> ThresholdAtCall(c.arg)

OrdInit ==
    /\ BookInit /\ FaceInit /\ LoopIdle
    /\ \E w \in {"book", "face"} :
         ord = [phase |-> "config", who |-> w, first |-> NoCall, second |-> NoCall,
                ab |-> "none", ba |-> "none"]

ConfigureBook ==
    ord.phase = "config" /\ ord.who = "book" /\ \E c \in BookCalls : BookCall(c)

ConfigureFace ==
    ord.phase = "config" /\ ord.who = "face" /\ \E c \in FaceCalls : FaceCall(c)

TryBookOrders ==
    /\ ord.phase = "config" /\ ord.who = "book"
    /\ \E c1, c2 \in BookCalls :
         ord' = [ord EXCEPT !.phase = "done", !.first = c1, !.second = c2,
                            !.ab = ApplyBook(ApplyBook(bi, c1), c2),
                            !.ba = ApplyBook(ApplyBook(bi, c2), c1)]
    /\ UNCHANGED <<bi, ret, fi, fret, loop>>

TryFaceOrders ==
    /\ ord.phase = "config" /\ ord.who = "face"
    /\ \E c1, c2 \in FaceCalls :
         ord' = [ord EXCEPT !.phase = "done", !.first = c1, !.second = c2,
                            !.ab = ApplyFace(ApplyFace(fi, c1), c2),
                            !.ba = ApplyFace(ApplyFace(fi, c2), c1)]
    /\ UNCHANGED <<bi, ret, fi, fret, loop>>

OrdNextStep ==
    \/ ConfigureBook
    \/ ConfigureFace
    \/ TryBookOrders
    \/ TryFaceOrders

SpecOrder == OrdInit /\ [][OrdNextStep]_vars

\* The request the builder would send on execution.
OrdRequest(who, b) == IF who = "book" THEN BookRequest(b) ELSE FaceRequest(b)

----------------------------------------------------------------------------
(* A caller positioning the iterator with Result, then calling Next until  *)
(* it returns ErrEndPage; other setters may be called between the steps.   *)

LoopPageArgs == ((1 - ArgSlack) .. 1) \cup (50 .. (50 + ArgSlack))

LoopInit ==
    /\ BookInit /\ FaceInit /\ OrdIdle
    /\ loop = [phase |-> "config", p |-> 0, succ |-> 0, nreq |-> 0, fails |-> 0]

LoopPosition ==
    loop.phase = "config" /\ \E page \in LoopPageArgs : ResultCall(page)

LoopStart ==
    /\ loop.phase = "config"
    /\ loop' = [loop EXCEPT !.phase = "running", !.p = bi.Page]
    /\ UNCHANGED <<bi, ret, fi, fret, ord>>

LoopSetter ==
    /\ loop.phase = "running"
    /\ CallAuthorizeWith \/ CallSortBy \/ CallDisplay \/ CallFilter

\* One iteration of the caller's loop. The transport fails at most MaxFails
\* times in one loop.
LoopNext ==
    /\ loop.phase = "running"
    /\ \E resp \in Responses :
         /\ resp.kind # "ok" => loop.fails < MaxFails
         /\ NextOn(resp)
    /\ loop' = [loop EXCEPT
                  !.phase = IF ret'.err = ErrEndPage THEN "done" ELSE "running",
                  !.succ  = @ + (IF ret'.err = "nil" THEN 1 ELSE 0),
                  !.nreq  = @ + Len(ret'.reqs),
                  !.fails = @ + (IF ret'.err \in {"transport", "decode"} THEN 1 ELSE 0)]
    /\ UNCHANGED <<fi, fret, ord>>

LoopNextStep ==
    \/ LoopPosition
    \/ LoopStart
    \/ LoopSetter
    \/ LoopNext

\* The loop keeps calling Next until it has seen ErrEndPage.
SpecLoop == LoopInit /\ [][LoopNextStep]_vars /\ WF_vars(LoopNext)

----------------------------------------------------------------------------
(* Properties of the iterator, checked under Spec *)

\* C1: a Next call on an exhausted iterator (end = TRUE) returns ErrEndPage,
\* sends no request, and leaves the page counter and the terminal flag as
\* they were.
C1_ExhaustedNext ==
    [][\A resp \in Responses :
         (bi.end /\ NextCall(resp)) =>
            /\ ret'.err = ErrEndPage
            /\ ret'.reqs = <<>>
            /\ bi'.Page = bi.Page
            /\ bi'.end = bi.end]_vars

\* A Next call has just returned the sentinel on an exhausted iterator.
C1_Witness ==
    ret.op = "Next" /\ ret.err = ErrEndPage /\ ret.reqs = <<>> /\ bi.end

\* C2: after a successful Next the iterator is exhausted exactly when the
\* response's is_end was set or the incremented page counter exceeds 50; a
\* successful step that requested page 50 always exhausts it.
C2_EndExactly ==
    (ret.op = "Next" /\ ret.err = "nil") =>
        /\ bi.end <=> (ret.res.IsEnd \/ bi.Page > 50)
        /\ ret.reqs[1].page = 50 => bi.end

\* Page 50 was fetched, the server said there is more, the iterator is
\* exhausted.
C2_Witness ==
    /\ ret.op = "Next" /\ ret.err = "nil"
    /\ ret.reqs[1].page = 50 /\ ~ret.res.IsEnd /\ bi.end

\* C3: once exhausted, the iterator stays exhausted through every later Next
\* call and setter call, and every later Next returns ErrEndPage.
C3_ExhaustedForever ==
    [][bi.end => (bi'.end /\ (ret'.op = "Next" => ret'.err = ErrEndPage))]_vars

\* Result(p) with a valid p has been called on an exhausted iterator.
C3_Witness == bi.end /\ ret.op = "Result" /\ ret.panic = "none"

\* C4: Result and Display panic on every argument outside [1,50], leaving
\* every field of the iterator as it was; on every argument inside [1,50]
\* they return and set exactly their own field.
C4_RangeChecked ==
    [][/\ ret'.op = "Result" =>
            IF ret'.arg \in 1..50
            THEN ret'.panic = "none" /\ bi' = [bi EXCEPT !.Page = ret'.arg]
            ELSE ret'.panic # "none" /\ bi' = bi
       /\ ret'.op = "Display" =>
            IF ret'.arg \in 1..50
            THEN ret'.panic = "none" /\ bi' = [bi EXCEPT !.Size = ret'.arg]
            ELSE ret'.panic # "none" /\ bi' = bi]_vars

\* An out-of-range call has panicked on an iterator configured before it.
C4_Witness ==
    /\ ret.op \in {"Result", "Display"} /\ ret.arg \notin 1..50
    /\ ret.panic # "none" /\ bi.Page = 50 /\ bi.Size = 50

\* C5: every request Next sends carries a page in [1,50] and a size in
\* [1,50].
C5_RequestInRange ==
    \A i \in 1..Len(ret.reqs) :
        ret.reqs[i].page \in 1..50 /\ ret.reqs[i].size \in 1..50

\* A request for page 50 with size 50 has been sent.
C5_Witness ==
    ret.op = "Next" /\ Len(ret.reqs) = 1
    /\ ret.reqs[1].page = 50 /\ ret.reqs[1].size = 50

\* C8, as claimed: every Next call on an active iterator sends exactly one
\* request, carrying the current page and the configured size, and
\* increments the page counter by one.
C8_AlwaysIncrements ==
    [][\A resp \in Responses :
         (~bi.end /\ NextCall(resp)) =>
            /\ Len(ret'.reqs) = 1
            /\ ret'.reqs[1].page = bi.Page
            /\ ret'.reqs[1].size = bi.Size
            /\ bi'.Page = bi.Page + 1]_vars

\* C8, amended: every Next call on an active iterator sends exactly one
\* request, carrying the current page and the configured size; it increments
\* the page counter by one when the request and the decode succeed, and
\* leaves it as it was when either fails.
C8_IncrementsOnSuccess ==
    [][\A resp \in Responses :
         (~bi.end /\ NextCall(resp)) =>
            /\ Len(ret'.reqs) = 1
            /\ ret'.reqs[1].page = bi.Page
            /\ ret'.reqs[1].size = bi.Size
            /\ bi'.Page = IF ret'.err = "nil" THEN bi.Page + 1 ELSE bi.Page]_vars

\* An active Next has sent its one request and moved on to the next page.
C8_Witness ==
    /\ ret.op = "Next" /\ ret.err = "nil" /\ Len(ret.reqs) = 1
    /\ bi.Page = ret.reqs[1].page + 1 /\ ret.reqs[1].size = bi.Size

\* C9: a Next call whose request or decode fails returns that error, having
\* sent one request and no more, and leaves every field of the iterator as
\* it was, so the iterator is still active and on the page it asked for.
C9_FailureKeepsCursor ==
    [][\A resp \in Responses :
         (~bi.end /\ resp.kind # "ok" /\ NextCall(resp)) =>
            /\ ret'.err = (IF resp.kind = "transport" THEN "transport" ELSE "decode")
            /\ Len(ret'.reqs) = 1
            /\ bi' = bi
            /\ ~bi'.end
            /\ BookRequest(bi').page = ret'.reqs[1].page]_vars

\* A Next call has failed on a page past the first.
C9_Witness ==
    /\ ret.op = "Next" /\ ret.err \in {"transport", "decode"}
    /\ ~bi.end /\ bi.Page > 1 /\ ret.reqs[1].page = bi.Page

----------------------------------------------------------------------------
(* Properties of the initializer, checked under SpecFace *)

\* C6: Collect in file mode on a file larger than 2MB (2*1024*1024 bytes)
\* returns a non-nil error and sends no request.
C6_OversizedFails ==
    ( /\ fret.op = "Collect" /\ fret.withFile /\ fret.panic = "none"
      /\ fret.file.exists /\ fret.file.statOk
      /\ fret.file.size > 2 * 1024 * 1024 )
    => (fret.err # "nil" /\ fret.reqs = <<>>)

----------------------------------------------------------------------------
(* Order of setter calls, checked under SpecOrder *)

\* C7, as claimed: any two setter calls with valid arguments, applied to the
\* same builder in either order, leave the same builder state and so the
\* same request.
C7_AnyOrder ==
    ord.phase = "done" =>
        /\ ord.ab = ord.ba
        /\ OrdRequest(ord.who, ord.ab) = OrdRequest(ord.who, ord.ba)

\* Two calls write disjoint fields: they are calls of two different setters,
\* and not WithURL and WithFile, which both write withFile.
Independent(c1, c2) ==
    c1.op # c2.op /\ {c1.op, c2.op} # {"WithURL", "WithFile"}

\* C7, amended: two calls with valid arguments of two different setters of a
\* builder, other than WithURL and WithFile, leave the same builder state and
\* so the same request in either order.
C7_IndependentSettersCommute ==
    (ord.phase = "done" /\ Independent(ord.first, ord.second)) =>
        /\ ord.ab = ord.ba
        /\ OrdRequest(ord.who, ord.ab) = OrdRequest(ord.who, ord.ba)

\* Result(50) and Display(50) were applied in both orders to an iterator on
\* which both change a field.
C7_Witness ==
    /\ ord.phase = "done" /\ ord.who = "book"
    /\ ord.first = [op |-> "Result", arg |-> 50]
    /\ ord.second = [op |-> "Display", arg |-> 50]
    /\ bi.Page # 50 /\ bi.Size # 50
    /\ ord.ab.Page = 50 /\ ord.ab.Size = 50

----------------------------------------------------------------------------
(* The caller's loop, checked under SpecLoop *)

\* C10: from an active iterator on page p, with no Result call between the
\* steps, at most 51 - p Next calls succeed; when every request succeeds the
\* loop has sent at most 51 - p requests; and the loop ends, on an exhausted
\* iterator.
C10_LoopBounded ==
    /\ [](loop.phase \in {"running", "done"} =>
            /\ loop.p \in 1..50
            /\ loop.succ <= 51 - loop.p
            /\ loop.fails = 0 => loop.nreq <= 51 - loop.p
            /\ loop.phase = "done" => bi.end)
    /\ (loop.phase = "running") ~> (loop.phase = "done")

\* A loop from page 1 has ended after 50 requests, all of them answered.
C10_Witness ==
    /\ loop.phase = "done" /\ loop.p = 1 /\ loop.fails = 0
    /\ loop.nreq = 50 /\ loop.succ = 50 /\ bi.end

====
